---- MODULE Spec2Model ----
(***************************************************************************)
(* Model of ibt-exporter (src/main.py): a BLE dual-probe thermometer       *)
(* bridged to a Prometheus endpoint.                                       *)
(*                                                                         *)
(*   - main(): the connection loop (scan, find, connect, two settings      *)
(*     writes, start_notify, 5 s liveness poll, stop_notify, session       *)
(*     close, 5 s retry sleep), one action per await.                      *)
(*   - data_notify_handler(): runs as a callback of the event loop, hence  *)
(*     atomically with respect to main(), but as three separate gauge      *)
(*     updates with respect to the web thread.                             *)
(*   - metrics(): generate_latest(registry) in the web thread; it copies   *)
(*     the label table, then reads each gauge cell in turn.                *)
(*                                                                         *)
(* Time is a discrete clock in seconds.  asyncio.sleep(5) returns exactly  *)
(* at its deadline; every other await may take any amount of time.         *)
(* Temperatures are decimal numbers with one fractional digit, written     *)
(* [units, tenths].  Every gauge cell carries a tag n, the number of the   *)
(* notification that wrote it (0: never written); the program never reads  *)
(* the tag.                                                                *)
(***************************************************************************)
EXTENDS Integers, Sequences, FiniteSets, TLC

\* ------------------------------------------------------------ bounds
MaxTime == 11
MaxNotifs == 2
MaxPayloadLen == 5
MaxFailures == 2

\* ------------------------------------------------- program constants
POLL_INTERVAL == 5
RETRY_DELAY == 5
SENTINEL == 65535

data_characteristic == "0000fff4-0000-1000-8000-00805f9b34fb"
settings_characteristic == "0000fff5-0000-1000-8000-00805f9b34fb"
use_celsius == <<2, 0, 0, 0, 0, 0>>
enable_realtime == <<11, 1, 0, 0, 0, 0>>

\* --------------------------------------------------------- input sets
Byte == 0..255
\* the two frames of the end-to-end scenarios: 0.1 and 0.2 degrees, and two
\* absent probes; notifications are these frames cut or extended to any
\* length up to MaxPayloadLen
Frames == {<<1, 0, 2, 0>>, <<255, 255, 255, 255>>}
Resized(frame, k) == [i \in 1..k |-> IF i <= Len(frame) THEN frame[i] ELSE 3]
Payloads == {Resized(f, k) : f \in Frames, k \in 0..MaxPayloadLen}
\* argparse leaves an option that is not given at None
None == "<None>"
ProbeNameArgs == {None, "pit"}
NoTime == -1

\* ---------------------------------------------------- pure functions
\* data[lo:hi] of Python: the bounds are clamped to the length
Slice(data, lo, hi) ==
    LET top == IF hi < Len(data) THEN hi ELSE Len(data)
    IN  IF lo >= top THEN <<>> ELSE [i \in 1..(top - lo) |-> data[lo + i]]

RECURSIVE FromBytesLittle(_)
FromBytesLittle(data) ==
    IF data = <<>> THEN 0
    ELSE data[1] + 256 * FromBytesLittle(Tail(data))

Temp(units, tenths) == [units |-> units, tenths |-> tenths]

bytes_to_temperature_floor(data) ==
    LET raw == FromBytesLittle(data)
    IN  IF raw = SENTINEL THEN Temp(0, 0) ELSE Temp(raw \div 10, 0)

bytes_to_temperature(data) ==
    LET raw == FromBytesLittle(data)
    IN  IF raw = SENTINEL THEN Temp(0, 0) ELSE Temp(raw \div 10, raw % 10)

\* prometheus_client turns a label value into its string: None becomes "None"
LabelOf(arg) == IF arg = None THEN "None" ELSE arg

\* the labelled gauge: a dict in insertion order, as a sequence of cells
HasLabel(gauge, name) == \E i \in 1..Len(gauge) : gauge[i].name = name
LabelNames(gauge) == {gauge[i].name : i \in 1..Len(gauge)}
CellOf(gauge, name) == gauge[CHOOSE i \in 1..Len(gauge) : gauge[i].name = name]
\* temperature.labels(name=...).set(value): create the child if new, set it
SetLabel(gauge, name, value, n) ==
    LET cell == [name |-> name, value |-> value, n |-> n]
    IN  IF HasLabel(gauge, name)
        THEN [i \in 1..Len(gauge) |->
                 IF gauge[i].name = name THEN cell ELSE gauge[i]]
        ELSE Append(gauge, cell)

VARIABLES
    probe1_name, probe2_name,   \* args.probe1_name, args.probe2_name
    pc,                         \* the await main() is suspended at
    exc,                        \* the exception propagating or being handled
    wake,                       \* deadline of the pending asyncio.sleep
    sessions,                   \* BleakClient sessions that are open
    subs,                       \* active subscriptions of data_notify_handler
    is_connected,               \* client.is_connected, as the transport reports
    gattLog,                    \* this cycle's calls, with their outcome
    dropAt,                     \* when the transport dropped during Streaming
    detectAt,                   \* when the liveness poll found the drop
    failures,                   \* consecutive failed cycles (saturating)
    hpc, hdata, temp1, temp2,   \* data_notify_handler: position and locals
    handled,                    \* notifications delivered so far
    temperature, last_received, \* the two gauges of the registry
    server,                     \* the web thread
    spc, snapTodo, snap,        \* metrics(): position, cells to read, result
    now,                        \* the wall clock, in seconds
    decIn, decOut               \* input and result of a lone decoder call

supVars == <<pc, exc, wake, sessions, subs, is_connected, gattLog, dropAt,
             detectAt, failures>>
handlerVars == <<hpc, hdata, temp1, temp2, handled>>
registryVars == <<temperature, last_received>>
webVars == <<server, spc, snapTodo, snap>>
argVars == <<probe1_name, probe2_name>>
decVars == <<decIn, decOut>>
vars == <<argVars, supVars, handlerVars, registryVars, webVars, now, decVars>>

NoTemp == Temp(-1, 0)
EmptySnap == [temps |-> <<>>, ts |-> [value |-> NoTime, n |-> 0]]

Init ==
    /\ probe1_name \in ProbeNameArgs
    /\ probe2_name \in ProbeNameArgs
    /\ pc = "scan"
    /\ exc = "none"
    /\ wake = NoTime
    /\ sessions = 0
    /\ subs = 0
    /\ is_connected = FALSE
    /\ gattLog = <<>>
    /\ dropAt = NoTime
    /\ detectAt = NoTime
    /\ failures = 0
    /\ hpc = "idle"
    /\ hdata = <<>>
    /\ temp1 = NoTemp
    /\ temp2 = NoTemp
    /\ handled = 0
    /\ temperature = <<>>
    /\ last_received = [value |-> 0, n |-> 0]
    /\ server = "starting"
    /\ spc = "idle"
    /\ snapTodo = <<>>
    /\ snap = EmptySnap
    /\ now = 1
    /\ decIn = <<>>
    /\ decOut = NoTemp

\* ------------------------------------------------ main(): the supervisor
Min(a, b) == IF a < b THEN a ELSE b

InSession == {"write_celsius", "write_realtime", "start_notify",
              "poll_sleep", "stop_notify", "aexit"}

Call(op, char, data, ok) == [op |-> op, char |-> char, data |-> data, ok |-> ok]

\* a main() that clears the gauges whenever it runs
MainFrame_clearing ==
    /\ temperature' = <<>>
    /\ last_received' = [value |-> 0, n |-> 0]
    /\ UNCHANGED <<argVars, handlerVars, webVars, now, decVars>>

\* main() touches neither the gauges nor the other thread
MainFrame ==
    UNCHANGED <<argVars, handlerVars, registryVars, webVars, now, decVars>>

\* an except clause that gives up at the second failure in a row
EnterRetry_cutoff ==
    IF failures >= 1
    THEN /\ pc' = "terminated"
         /\ exc' = "Exception"
         /\ wake' = NoTime
         /\ UNCHANGED failures
    ELSE /\ pc' = "retry"
         /\ exc' = "Exception"
         /\ wake' = now + RETRY_DELAY
         /\ failures' = Min(failures + 1, MaxFailures)

\* an except clause that retries at once
EnterRetry_nowait ==
    /\ pc' = "retry"
    /\ exc' = "Exception"
    /\ wake' = now
    /\ failures' = Min(failures + 1, MaxFailures)

\* lines 119-123: the except clause logs and starts the retry sleep
EnterRetry ==
    /\ pc' = "retry"
    /\ exc' = "Exception"
    /\ wake' = now + RETRY_DELAY
    /\ failures' = Min(failures + 1, MaxFailures)

\* a session opened without the context manager: an exception skips the close
RaiseInSession_noclose ==
    /\ pc' = "retry"
    /\ exc' = "Exception"
    /\ wake' = now + RETRY_DELAY
    /\ failures' = Min(failures + 1, MaxFailures)

\* an exception raised inside the async with block: __aexit__ runs first
RaiseInSession ==
    /\ pc' = "aexit"
    /\ exc' = "Exception"
    /\ wake' = NoTime
    /\ UNCHANGED failures

\* line 83: await scan_devices(), the first step of a cycle
Scan ==
    /\ pc = "scan" /\ hpc = "idle"
    /\ dropAt' = NoTime
    /\ detectAt' = NoTime
    /\ \E ok \in BOOLEAN :
          /\ gattLog' = <<Call("scan", "", <<>>, ok)>>
          /\ IF ok
             THEN pc' = "find" /\ UNCHANGED <<exc, wake, failures>>
             ELSE EnterRetry
    /\ UNCHANGED <<sessions, subs, is_connected>>
    /\ MainFrame

\* a resolution whose None result is not looked at
Find_unchecked ==
    /\ pc = "find" /\ hpc = "idle"
    /\ \E device \in {"found", "none", "error"} :
          /\ gattLog' = Append(gattLog, Call("find", device, <<>>, device = "found"))
          /\ IF device \in {"found", "none"}
             THEN pc' = "connect" /\ UNCHANGED <<exc, wake, failures>>
             ELSE EnterRetry
    /\ UNCHANGED <<sessions, subs, is_connected, dropAt, detectAt>>
    /\ MainFrame

\* lines 85-89: find_device_by_address; None raises
Find ==
    /\ pc = "find" /\ hpc = "idle"
    /\ \E device \in {"found", "none", "error"} :
          /\ gattLog' = Append(gattLog, Call("find", device, <<>>, device = "found"))
          /\ IF device = "found"
             THEN pc' = "connect" /\ UNCHANGED <<exc, wake, failures>>
             ELSE EnterRetry
    /\ UNCHANGED <<sessions, subs, is_connected, dropAt, detectAt>>
    /\ MainFrame

\* lines 93-101: async with BleakClient(device): __aenter__ connects
Connect ==
    /\ pc = "connect" /\ hpc = "idle"
    /\ \E ok \in BOOLEAN :
          /\ gattLog' = Append(gattLog, Call("connect", "", <<>>, ok))
          /\ IF ok
             THEN /\ pc' = "write_celsius"
                  /\ sessions' = sessions + 1
                  /\ is_connected' = TRUE
                  /\ UNCHANGED <<exc, wake, failures>>
             ELSE /\ EnterRetry
                  /\ UNCHANGED <<sessions, is_connected>>
    /\ UNCHANGED <<subs, dropAt, detectAt>>
    /\ MainFrame

\* a write whose failure is dropped
WriteGatt_ignoring(at, data, next) ==
    /\ pc = at /\ hpc = "idle"
    /\ \E ok \in BOOLEAN :
          /\ ok => is_connected
          /\ gattLog' = Append(gattLog,
                               Call("write", settings_characteristic, data, ok))
          /\ pc' = next /\ UNCHANGED <<exc, wake, failures>>
    /\ UNCHANGED <<sessions, subs, is_connected, dropAt, detectAt>>
    /\ MainFrame

\* await client.write_gatt_char(settings_characteristic, data)
WriteGatt(at, data, next) ==
    /\ pc = at /\ hpc = "idle"
    /\ \E ok \in BOOLEAN :
          /\ ok => is_connected
          /\ gattLog' = Append(gattLog,
                               Call("write", settings_characteristic, data, ok))
          /\ IF ok
             THEN pc' = next /\ UNCHANGED <<exc, wake, failures>>
             ELSE RaiseInSession
    /\ UNCHANGED <<sessions, subs, is_connected, dropAt, detectAt>>
    /\ MainFrame

\* the two commands in the other order
WriteCelsius_swapped == WriteGatt("write_celsius", enable_realtime, "write_realtime")

\* line 106
WriteCelsius == WriteGatt("write_celsius", use_celsius, "write_realtime")

\* line 107
WriteRealtime == WriteGatt("write_realtime", enable_realtime, "start_notify")

\* line 110: start_notify, then the first asyncio.sleep(5) of the poll loop
StartNotify ==
    /\ pc = "start_notify" /\ hpc = "idle"
    /\ \E ok \in BOOLEAN :
          /\ ok => is_connected
          /\ gattLog' = Append(gattLog,
                               Call("start_notify", data_characteristic, <<>>, ok))
          /\ IF ok
             THEN /\ pc' = "poll_sleep"
                  /\ subs' = subs + 1
                  /\ wake' = now + POLL_INTERVAL
                  /\ failures' = 0
                  /\ UNCHANGED exc
             ELSE RaiseInSession /\ UNCHANGED subs
    /\ UNCHANGED <<sessions, is_connected, dropAt, detectAt>>
    /\ MainFrame

\* a poll that, finding the link down, goes on to line 118 to unsubscribe
PollWake_unsubscribing ==
    /\ pc = "poll_sleep" /\ hpc = "idle"
    /\ now = wake
    /\ IF is_connected
       THEN /\ wake' = now + POLL_INTERVAL
            /\ UNCHANGED <<pc, exc, failures, detectAt>>
       ELSE /\ pc' = "stop_notify"
            /\ wake' = NoTime
            /\ detectAt' = now
            /\ UNCHANGED <<exc, failures>>
    /\ UNCHANGED <<sessions, subs, is_connected, gattLog, dropAt>>
    /\ MainFrame

\* lines 112-115: the sleep returns, the liveness flag is polled
PollWake ==
    /\ pc = "poll_sleep" /\ hpc = "idle"
    /\ now = wake
    /\ IF is_connected
       THEN /\ wake' = now + POLL_INTERVAL
            /\ UNCHANGED <<pc, exc, failures, detectAt>>
       ELSE /\ RaiseInSession
            /\ detectAt' = now
    /\ UNCHANGED <<sessions, subs, is_connected, gattLog, dropAt>>
    /\ MainFrame

\* lines 116-117: a KeyboardInterrupt raised inside the poll loop is dropped
PollInterrupt ==
    /\ pc = "poll_sleep" /\ hpc = "idle"
    /\ pc' = "stop_notify"
    /\ wake' = NoTime
    /\ UNCHANGED <<exc, sessions, subs, is_connected, gattLog, dropAt,
                   detectAt, failures>>
    /\ MainFrame

\* line 118
StopNotify ==
    /\ pc = "stop_notify" /\ hpc = "idle"
    /\ \E ok \in BOOLEAN :
          /\ ok => is_connected
          /\ gattLog' = Append(gattLog,
                               Call("stop_notify", data_characteristic, <<>>, ok))
          /\ IF ok
             THEN /\ pc' = "aexit"
                  /\ subs' = subs - 1
                  /\ UNCHANGED <<exc, wake, failures>>
             ELSE RaiseInSession /\ UNCHANGED subs
    /\ UNCHANGED <<sessions, is_connected, dropAt, detectAt>>
    /\ MainFrame

\* line 93, __aexit__: the client disconnects, which ends its subscriptions;
\* then the exception, if any, reaches line 119, or the loop starts over
CloseSession ==
    /\ pc = "aexit" /\ hpc = "idle"
    /\ sessions' = sessions - 1
    /\ subs' = 0
    /\ is_connected' = FALSE
    /\ gattLog' = Append(gattLog, Call("disconnect", "", <<>>, TRUE))
    /\ CASE exc = "Exception" -> EnterRetry
         [] exc = "none" -> pc' = "scan" /\ UNCHANGED <<exc, wake, failures>>
         [] OTHER -> pc' = "terminated" /\ UNCHANGED <<exc, wake, failures>>
    /\ UNCHANGED <<dropAt, detectAt>>
    /\ MainFrame

\* line 123: the retry sleep returns, the while loop starts the next cycle
RetryWake ==
    /\ pc = "retry" /\ hpc = "idle"
    /\ now = wake
    /\ pc' = "scan"
    /\ exc' = "none"
    /\ wake' = NoTime
    /\ UNCHANGED <<sessions, subs, is_connected, gattLog, dropAt, detectAt,
                   failures>>
    /\ MainFrame

\* a process-level interrupt: a BaseException that neither except clause
\* catches leaves main(), through __aexit__ when a session is open
Interrupt ==
    /\ pc # "terminated" /\ exc # "CancelledError" /\ hpc = "idle"
    /\ exc' = "CancelledError"
    /\ wake' = NoTime
    /\ pc' = IF pc \in InSession THEN "aexit" ELSE "terminated"
    /\ UNCHANGED <<sessions, subs, is_connected, gattLog, dropAt, detectAt,
                   failures>>
    /\ MainFrame

\* the transport loses the link: client.is_connected turns False
LinkDrop ==
    /\ is_connected
    /\ is_connected' = FALSE
    /\ dropAt' = IF pc = "poll_sleep" THEN now ELSE dropAt
    /\ UNCHANGED <<pc, exc, wake, sessions, subs, gattLog, detectAt, failures>>
    /\ UNCHANGED <<argVars, handlerVars, registryVars, webVars, now, decVars>>

\* one second passes; a pending asyncio.sleep returns at its deadline
Tick ==
    /\ now < MaxTime
    /\ pc \in {"poll_sleep", "retry"} => now < wake
    /\ now' = now + 1
    /\ UNCHANGED <<argVars, supVars, handlerVars, registryVars, webVars, decVars>>

\* ------------------------------------------------- data_notify_handler
\* lines 43-47: the transport delivers a notification to the callback, which
\* decodes the two windows of the payload
Notify(data) ==
    /\ hpc = "idle"
    /\ subs > 0 /\ is_connected /\ pc # "terminated"
    /\ handled < MaxNotifs
    /\ hdata' = data
    /\ temp1' = bytes_to_temperature(Slice(data, 0, 2))
    /\ temp2' = bytes_to_temperature(Slice(data, 2, 4))
    /\ handled' = handled + 1
    /\ hpc' = "label1"
    /\ UNCHANGED <<argVars, supVars, registryVars, webVars, now, decVars>>

\* temperature.labels(name=arg): the child of that label, created at 0 with
\* no reading in it when the label is new
Labels(arg, next) ==
    /\ temperature' = IF HasLabel(temperature, LabelOf(arg))
                      THEN temperature
                      ELSE SetLabel(temperature, LabelOf(arg), Temp(0, 0), 0)
    /\ hpc' = next
    /\ UNCHANGED <<hdata, temp1, temp2, handled, last_received>>
    /\ UNCHANGED <<argVars, supVars, webVars, now, decVars>>

\* .set(value) on the child of that label
SetGauge(arg, value, next) ==
    /\ temperature' = SetLabel(temperature, LabelOf(arg), value, handled)
    /\ hpc' = next
    /\ UNCHANGED <<hdata, temp1, temp2, handled, last_received>>
    /\ UNCHANGED <<argVars, supVars, webVars, now, decVars>>

\* line 50
LabelProbe1 == hpc = "label1" /\ Labels(probe1_name, "set1")

SetProbe1 == hpc = "set1" /\ SetGauge(probe1_name, temp1, "label2")

\* line 51
LabelProbe2 == hpc = "label2" /\ Labels(probe2_name, "set2")

\* a second set that writes the first probe's reading again
SetProbe2_first == hpc = "set2" /\ SetGauge(probe2_name, temp1, "touch")

SetProbe2 == hpc = "set2" /\ SetGauge(probe2_name, temp2, "touch")

\* lines 52-54: last_received.set_to_current_time(), and the handler returns
TouchTimestamp ==
    /\ hpc = "touch"
    /\ last_received' = [value |-> now, n |-> handled]
    /\ hpc' = "idle"
    /\ hdata' = <<>>
    /\ temp1' = NoTemp
    /\ temp2' = NoTemp
    /\ UNCHANGED <<handled, temperature>>
    /\ UNCHANGED <<argVars, supVars, webVars, now, decVars>>

HandlerStep == LabelProbe1 \/ SetProbe1 \/ LabelProbe2 \/ SetProbe2 \/ TouchTimestamp

\* ------------------------------------------------- the web thread
\* lines 74-75, 160-161: app.run binds 0.0.0.0:8080 in its own thread
WebStart ==
    /\ server = "starting"
    /\ \E ok \in BOOLEAN : server' = IF ok THEN "listening" ELSE "failed"
    /\ UNCHANGED <<spc, snapTodo, snap>>
    /\ UNCHANGED <<argVars, supVars, handlerVars, registryVars, now, decVars>>

\* lines 22-25: generate_latest starts with the labelled gauge and copies
\* its table of children
MetricsBegin ==
    /\ server = "listening" /\ spc = "idle"
    /\ snapTodo' = [i \in 1..Len(temperature) |-> temperature[i].name]
    /\ snap' = EmptySnap
    /\ spc' = "cells"
    /\ UNCHANGED server
    /\ UNCHANGED <<argVars, supVars, handlerVars, registryVars, now, decVars>>

\* the value of the next child is read
MetricsReadCell ==
    /\ spc = "cells" /\ snapTodo # <<>>
    /\ snap' = [snap EXCEPT !.temps =
                   Append(@, CellOf(temperature, Head(snapTodo)))]
    /\ snapTodo' = Tail(snapTodo)
    /\ UNCHANGED <<server, spc>>
    /\ UNCHANGED <<argVars, supVars, handlerVars, registryVars, now, decVars>>

\* the second collector, last_received, is read; the text is complete
MetricsReadTimestamp ==
    /\ spc = "cells" /\ snapTodo = <<>>
    /\ snap' = [snap EXCEPT !.ts = last_received]
    /\ spc' = "done"
    /\ UNCHANGED <<server, snapTodo>>
    /\ UNCHANGED <<argVars, supVars, handlerVars, registryVars, now, decVars>>

\* the response is sent
MetricsReturn ==
    /\ spc = "done"
    /\ spc' = "idle"
    /\ snap' = EmptySnap
    /\ UNCHANGED <<server, snapTodo>>
    /\ UNCHANGED <<argVars, supVars, handlerVars, registryVars, now, decVars>>

\* ------------------------------------------------- specifications
Supervisor ==
    \/ Scan
    \/ Find
    \/ Connect
    \/ WriteCelsius
    \/ WriteRealtime
    \/ StartNotify
    \/ PollWake
    \/ PollInterrupt
    \/ StopNotify
    \/ CloseSession
    \/ RetryWake
    \/ Interrupt

Web ==
    \/ WebStart
    \/ MetricsBegin
    \/ MetricsReadCell
    \/ MetricsReadTimestamp
    \/ MetricsReturn

\* the whole program
Next ==
    \/ Supervisor
    \/ LinkDrop
    \/ Tick
    \/ \E data \in Payloads : Notify(data)
    \/ HandlerStep
    \/ Web

Spec == Init /\ [][Next]_vars

\* The state space of Spec is the product of the event loop, the clock and
\* the web thread.  It is explored in two parts, each a set of behaviours
\* of Spec: the event loop with the clock while no request is served, and
\* the event loop with the web thread within one second of the clock.
BleNext ==
    \/ Supervisor
    \/ LinkDrop
    \/ Tick
    \/ \E data \in Payloads : Notify(data)
    \/ HandlerStep

BleSpec == Init /\ [][BleNext]_vars

WebNext ==
    \/ Scan
    \/ Find
    \/ Connect
    \/ WriteCelsius
    \/ WriteRealtime
    \/ StartNotify
    \/ PollInterrupt
    \/ StopNotify
    \/ CloseSession
    \/ Interrupt
    \/ LinkDrop
    \/ \E data \in Payloads : Notify(data)
    \/ HandlerStep
    \/ Web

WebSpec == Init /\ [][WebNext]_vars

\* the decoder alone, on every pair of bytes
Decode ==
    /\ decOut = NoTemp
    /\ decOut' = bytes_to_temperature(decIn)
    /\ UNCHANGED <<argVars, supVars, handlerVars, registryVars, webVars, now, decIn>>

DecInit ==
    /\ decIn \in [1..2 -> Byte]
    /\ decOut = NoTemp
    /\ probe1_name = None /\ probe2_name = None
    /\ pc = "scan" /\ exc = "none" /\ wake = NoTime
    /\ sessions = 0 /\ subs = 0 /\ is_connected = FALSE
    /\ gattLog = <<>> /\ dropAt = NoTime /\ detectAt = NoTime /\ failures = 0
    /\ hpc = "idle" /\ hdata = <<>> /\ temp1 = NoTemp /\ temp2 = NoTemp
    /\ handled = 0
    /\ temperature = <<>> /\ last_received = [value |-> 0, n |-> 0]
    /\ server = "starting" /\ spc = "idle" /\ snapTodo = <<>> /\ snap = EmptySnap
    /\ now = 1

DecNext == Decode

DecSpec == DecInit /\ [][DecNext]_vars

\* ------------------------------------------------- the claims
\* the states of the spec's state machine
Discovering == pc \in {"scan", "find"}
RetryDelay == pc = "retry"
Streaming == pc = "poll_sleep"

CelsiusWrite == Call("write", settings_characteristic, use_celsius, TRUE)
RealtimeWrite == Call("write", settings_characteristic, enable_realtime, TRUE)
IssuedAt(i, op, data) == gattLog[i].op = op /\ gattLog[i].data = data
Subscribed(i) == gattLog[i] = Call("start_notify", data_characteristic, <<>>, TRUE)

\* C1: a failure raised anywhere in a cycle (an Exception) never ends the
\* supervisor: it reaches the except clause, through the close of the session
\* when one is open, the retry sleep is set to exactly RETRY_DELAY seconds
\* and is left only at its deadline and only for Discovering; main() ends
\* only on a process-level interrupt.  No step depends on how many cycles
\* failed before.
C1_FailureRetries ==
    [][ /\ (exc = "none" /\ exc' = "Exception") => pc' \in {"retry", "aexit"}
        /\ (pc = "aexit" /\ exc = "Exception" /\ pc' # "aexit") => pc' = "retry"
        /\ (pc # "retry" /\ pc' = "retry")
               => exc' = "Exception" /\ wake' = now + RETRY_DELAY
        /\ (pc = "retry" /\ pc' # "retry")
               => \/ pc' = "scan" /\ exc' = "none" /\ now = wake
                  \/ pc' = "terminated" /\ exc' = "CancelledError"
        /\ pc' = "terminated" => exc' = "CancelledError"
      ]_vars

\* two failed cycles in a row, and Discovering starts again
C1_Witness == pc = "scan" /\ failures = 2 /\ exc = "none"

\* C2: in the log of a cycle, the streaming-enable write is issued only after
\* a completed Celsius write, the subscription only after a completed
\* streaming-enable write, and each of the three is issued at most once.
C2_ConfigureOrder ==
    /\ \A i \in 1..Len(gattLog) :
          /\ IssuedAt(i, "write", enable_realtime)
                => \E j \in 1..(i - 1) : gattLog[j] = CelsiusWrite
          /\ gattLog[i].op = "start_notify"
                => \E j \in 1..(i - 1) : \E k \in (j + 1)..(i - 1) :
                      gattLog[j] = CelsiusWrite /\ gattLog[k] = RealtimeWrite
          /\ gattLog[i].op = "write"
                => gattLog[i].char = settings_characteristic
                   /\ gattLog[i].data \in {use_celsius, enable_realtime}
          /\ \A j \in 1..Len(gattLog) :
                (j # i /\ gattLog[j].op = gattLog[i].op
                       /\ gattLog[j].data = gattLog[i].data) => FALSE
    /\ subs > 0 => \E i \in 1..Len(gattLog) : Subscribed(i)

C2_Witness == Streaming /\ subs = 1 /\ Len(gattLog) = 6 /\ Subscribed(6)

\* C3: during the retry delay and in Discovering no session is open and no
\* subscription is active; there is never more than one of either.
C3_NoLeak ==
    /\ (RetryDelay \/ Discovering) => sessions = 0 /\ subs = 0
    /\ sessions <= 1
    /\ subs <= 1

\* the retry delay of a cycle that had subscribed and then failed
C3_Witness ==
    /\ RetryDelay
    /\ \E i \in 1..Len(gattLog) : Subscribed(i)
    /\ ~ \E i \in 1..Len(gattLog) : gattLog[i].op = "stop_notify"

\* C4 as stated: the supervisor is back in Discovering within one poll
\* interval of the transport's report of a disconnect during Streaming.
C4_Original ==
    [][ (pc # "scan" /\ pc' = "scan" /\ detectAt # NoTime)
            => now' - dropAt <= POLL_INTERVAL ]_vars

\* C4, amended: a disconnect reported during Streaming is found no later than
\* the next liveness poll, within POLL_INTERVAL seconds of the report; the
\* session is then closed and the whole retry delay is waited, so Discovering
\* starts again no sooner than RETRY_DELAY seconds after the poll found it.
C4_DetectThenDelay ==
    /\ (Streaming /\ dropAt # NoTime) => now - dropAt <= POLL_INTERVAL
    /\ detectAt # NoTime
          => /\ dropAt # NoTime
             /\ detectAt - dropAt <= POLL_INTERVAL
             /\ pc \in {"aexit", "retry", "scan", "terminated"}
    /\ (pc = "scan" /\ detectAt # NoTime) => now - detectAt >= RETRY_DELAY

\* back in Discovering more than a poll interval after the report
C4_Witness ==
    /\ pc = "scan"
    /\ detectAt # NoTime
    /\ detectAt - dropAt > 0
    /\ now - dropAt > POLL_INTERVAL

\* C5: a step that changes a gauge is a step of data_notify_handler, and it
\* leaves the supervisor where it is; no step of main() changes a gauge.
C5_RegistryFrame ==
    [][ (temperature' # temperature \/ last_received' # last_received)
            => HandlerStep /\ UNCHANGED supVars ]_vars

\* in the retry delay after a disconnect, the gauges hold the last reading
C5_Witness ==
    /\ RetryDelay
    /\ detectAt # NoTime
    /\ hpc = "idle"
    /\ handled > 0
    /\ last_received.n = handled
    /\ \A i \in 1..Len(temperature) : temperature[i].n = handled

\* a reading in tenths of a degree, and what the protocol says bytes i, i+1
\* of a frame mean
Tenths(t) == 10 * t.units + t.tenths
Reading(frame, i) ==
    LET raw == frame[i] + 256 * frame[i + 1]
    IN  IF raw = SENTINEL THEN 0 ELSE raw

\* C6 as stated: when the handler returns from a 4-byte payload b, the
\* probe-1 label holds decode(b[0:2]), the probe-2 label holds decode(b[2:4])
\* and the timestamp is the current time; the timestamp never decreases.
C6_Original ==
    [][ /\ (hpc = "touch" /\ hpc' = "idle" /\ Len(hdata) = 4)
            => /\ HasLabel(temperature', LabelOf(probe1_name))
               /\ HasLabel(temperature', LabelOf(probe2_name))
               /\ Tenths(CellOf(temperature', LabelOf(probe1_name)).value)
                     = Reading(hdata, 1)
               /\ Tenths(CellOf(temperature', LabelOf(probe2_name)).value)
                     = Reading(hdata, 3)
               /\ last_received'.value = now'
        /\ last_received'.value >= last_received.value
      ]_vars

\* C7 as stated: handling a payload whose length is not 4 changes neither the
\* value of an existing temperature entry, nor the timestamp, nor the
\* supervisor.
C7_Original ==
    [][ (HandlerStep /\ Len(hdata) # 4)
            => /\ Len(temperature') >= Len(temperature)
               /\ \A i \in 1..Len(temperature) :
                     temperature'[i].value = temperature[i].value
               /\ UNCHANGED <<last_received, supVars>> ]_vars

\* C8: for the two bytes of an unsigned little-endian v, the decoder returns
\* v tenths of a degree, that is v / 10 with one decimal digit, unless v is
\* 0xFFFF, for which it returns 0.
C8_Decode ==
    decOut # NoTemp
        => LET v == decIn[1] + 256 * decIn[2]
           IN  /\ decOut.tenths \in 0..9
               /\ decOut.units >= 0
               /\ IF v = SENTINEL
                  THEN decOut = Temp(0, 0)
                  ELSE 10 * decOut.units + decOut.tenths = v

\* the absent probe, FF FF, decoded
C8_Witness == decIn = <<255, 255>> /\ decOut = Temp(0, 0)

\* C9 as stated: the cells of a rendered snapshot and its timestamp all come
\* from the same handled notification.
C9_Original ==
    spc = "done"
        => \A i \in 1..Len(snap.temps) : snap.temps[i].n = snap.ts.n

Configured == {LabelOf(probe1_name), LabelOf(probe2_name)}
Written(gauge) == {gauge[i].name : i \in {j \in 1..Len(gauge) : gauge[j].n > 0}}

\* C10 as stated: the labelled entries are among the two configured labels;
\* a snapshot has an entry for a label if and only if a handled notification
\* has written that label; there is no entry before the first notification;
\* no entry is ever removed.
C10_Original ==
    [][ /\ LabelNames(temperature') \subseteq Configured
        /\ handled' = 0 => temperature' = <<>>
        /\ LabelNames(temperature) \subseteq LabelNames(temperature')
        /\ (spc = "idle" /\ spc' = "cells")
              => Written(temperature) \subseteq {snapTodo'[i] : i \in 1..Len(snapTodo')}
        /\ spc' = "done"
              => \A i \in 1..Len(snap'.temps) : snap'.temps[i].n > 0
      ]_vars

\* C11 as stated: in every state of the supervisor the metrics server, started
\* before the first cycle, is up or coming up, and once it listens the web
\* thread always has a step to take on a request, whatever main() is doing.
C11_Original ==
    pc # "terminated"
        => /\ server \in {"starting", "listening"}
           /\ server = "listening"
                 => ENABLED (MetricsBegin \/ MetricsReadCell
                                \/ MetricsReadTimestamp \/ MetricsReturn)

\* C12 as stated: once the bind of the metrics server has failed, the
\* supervisor takes no further step of a cycle; it can only end.
C12_Original ==
    [][ (server = "failed" /\ pc' # pc) => pc' = "terminated" ]_vars

\* C13 as stated: a cycle that registered its subscription and ends in the
\* retry delay shows, after the subscription, an unsubscribe attempt and then
\* the close of the session.
C13_Original ==
    \A i \in 1..Len(gattLog) :
        (pc = "retry" /\ Subscribed(i))
            => \E j, k \in (i + 1)..Len(gattLog) :
                  /\ j < k
                  /\ gattLog[j].op = "stop_notify"
                  /\ gattLog[k].op = "disconnect"

\* the log of a cycle that left Streaming for the retry delay
TeardownLog ==
    LET n == Len(gattLog)
        unsubscribes == {j \in 1..n : gattLog[j].op = "stop_notify"}
    IN  (pc = "retry" /\ \E i \in 1..n : Subscribed(i))
            => /\ gattLog[n].op = "disconnect"
               /\ sessions = 0 /\ subs = 0
               /\ wake - now \in 0..RETRY_DELAY
               /\ \A j \in unsubscribes :
                     j = n - 1 /\ ~ gattLog[j].ok /\ Subscribed(j - 1)
               /\ detectAt # NoTime <=> unsubscribes = {}

\* C13: on an exit from Streaming to the retry delay the session is closed
\* before the delay starts, the delay is RETRY_DELAY seconds and ends in
\* Discovering; no unsubscribe is attempted when the liveness poll found the
\* link down, and the only unsubscribe in such a cycle is the one of line 118
\* that failed and thereby caused the exit.
C13_Teardown ==
    [][ /\ TeardownLog'
        /\ (pc = "aexit" /\ pc' = "retry") => wake' = now + RETRY_DELAY
        /\ (pc = "retry" /\ pc' # "retry")
              => (pc' = "scan" /\ now = wake) \/ pc' = "terminated"
      ]_vars

\* the retry delay after an unsubscribe that failed
C13_Witness ==
    /\ RetryDelay
    /\ \E i \in 1..Len(gattLog) : Subscribed(i)
    /\ \E j \in 1..Len(gattLog) : gattLog[j].op = "stop_notify"

\* C14 as stated: main() enters Discovering, other than at its start, only
\* from the retry sleep and only when the RETRY_DELAY seconds of that sleep
\* have passed.
C14_Original ==
    [][ (pc # "scan" /\ pc' = "scan")
            => pc = "retry" /\ wake # NoTime /\ now = wake ]_vars

\* C15: a subscription is registered only after both configuration writes
\* of the cycle completed; after a write that failed nothing is issued in
\* the cycle but the close of the session (no second write, no subscribe),
\* no subscription exists, and the session is closed by the time the retry
\* delay runs.
C15_ConfigureGate ==
    LET n == Len(gattLog)
        failedWrites == {i \in 1..n : gattLog[i].op = "write" /\ ~ gattLog[i].ok}
    IN  /\ \A i \in 1..n :
              gattLog[i].op = "start_notify"
                  => /\ failedWrites = {}
                     /\ \E j, k \in 1..(i - 1) :
                           gattLog[j] = CelsiusWrite /\ gattLog[k] = RealtimeWrite
        /\ \A i \in failedWrites :
              /\ \A j \in (i + 1)..n : gattLog[j].op = "disconnect"
              /\ subs = 0
              /\ pc \in {"aexit", "retry", "scan", "terminated"}
              /\ pc = "retry" => gattLog[n].op = "disconnect" /\ sessions = 0

\* the retry delay of a cycle whose second write failed
C15_Witness ==
    /\ RetryDelay
    /\ Len(gattLog) = 6
    /\ gattLog[4] = CelsiusWrite
    /\ gattLog[5] = Call("write", settings_characteristic, enable_realtime, FALSE)
    /\ gattLog[6].op = "disconnect"

\* C16: a scan or an address resolution that failed, or a resolution that
\* returned no device, is the last call of its cycle: no connect, write or
\* subscribe follows, no session or subscription exists, and the supervisor
\* is in the retry delay of RETRY_DELAY seconds (or past it, or ended); the
\* resolution is issued only after a scan that succeeded and the connect
\* only after a resolution that found the device.
C16_NoDevice ==
    LET n == Len(gattLog)
    IN  /\ \A i \in 1..n :
              (gattLog[i].op \in {"scan", "find"} /\ ~ gattLog[i].ok)
                  => /\ i = n
                     /\ sessions = 0 /\ subs = 0
                     /\ pc \in {"retry", "scan", "terminated"}
                     /\ pc = "retry" => wake - now \in 0..RETRY_DELAY
        /\ \A i \in 1..n :
              /\ gattLog[i].op = "find"
                    => i = 2 /\ gattLog[1] = Call("scan", "", <<>>, TRUE)
              /\ gattLog[i].op = "connect"
                    => i = 3 /\ gattLog[2] = Call("find", "found", <<>>, TRUE)

\* the retry delay of a cycle whose resolution returned no device
C16_Witness ==
    /\ RetryDelay
    /\ gattLog = << Call("scan", "", <<>>, TRUE),
                    Call("find", "none", <<>>, FALSE) >>

\* C17 as stated: a rendered snapshot whose timestamp was written by
\* notification n holds, for every probe value it shows, the value written
\* by notification n or by a later one.
C17_Original ==
    (spc = "done" /\ snap.ts.n > 0)
        => \A i \in 1..Len(snap.temps) : snap.temps[i].n >= snap.ts.n

\* C18: when the two probe labels are the same string (both unset included),
\* the labelled gauge never holds more than one entry, that entry is under
\* the shared label, and when the handler returns from a 4-byte payload b
\* the entry holds decode(b[2:4]), the probe-2 reading.
C18_SharedLabel ==
    [][ LabelOf(probe1_name) = LabelOf(probe2_name)
            => /\ Len(temperature') <= 1
               /\ LabelNames(temperature') \subseteq {LabelOf(probe1_name)}
               /\ (hpc = "touch" /\ hpc' = "idle" /\ Len(hdata) = 4)
                     => /\ Len(temperature') = 1
                        /\ Tenths(temperature'[1].value) = Reading(hdata, 3)
      ]_vars

\* both names unset, payload 01 00 02 00 handled: the one entry holds 0.2
C18_Witness ==
    /\ probe1_name = None /\ probe2_name = None
    /\ hpc = "idle" /\ handled > 0
    /\ temperature = << [name |-> "None", value |-> Temp(0, 2), n |-> handled] >>

====
